---- MODULE Spec2Model ----
(***************************************************************************)
(* A model of GPCData (src/gpcdata.py): the dataset container of AutoGPC.  *)
(*                                                                         *)
(* One GPCData instance is modelled from the constructor call onwards.    *)
(* A numpy ndarray is a record [kind, shape, data] holding its shape and   *)
(* its elements in row-major order; indices are 0-based as in numpy.       *)
(* The instance's attribute dictionary is the variable attrs, so that      *)
(* hasattr(self, 'a') is  "a" \in attrs ; the value of an attribute that   *)
(* is not in attrs is a placeholder that no operation reads.               *)
(* Every method call is one atomic step (the class is used from a single   *)
(* thread in Spec and SpecStats).  Values are integers: floating point     *)
(* rounding is outside the model.                                          *)
(***************************************************************************)
EXTENDS Integers, Sequences, FiniteSets, TLC

\* ---------------------------------------------------------------- bounds
MaxN == 3          \* rows of the datasets of Spec
MaxD == 2          \* columns of the datasets of Spec
MaxMod == 3        \* Spec's inputs take values in 0..MaxMod-1
MaxClasses == 3    \* Spec's outputs take values in 0..MaxClasses-1
StatN == 3         \* rows of the datasets of SpecStats
StatD == 2         \* columns of the datasets of SpecStats
StatVal == 3       \* SpecStats' inputs take values in 0..StatVal
StatCells == 4     \* SpecStats' inputs have at most StatCells elements
FoldN == 4         \* rows of the datasets of SpecFold

\* ------------------------------------------------ numpy arrays and helpers
Min(S) == CHOOSE m \in S : \A x \in S : m <= x

Max(S) == CHOOSE m \in S : \A x \in S : m >= x

Array(shape, data) == [kind |-> "ndarray", shape |-> shape, data |-> data]

NoArray == [kind |-> "none", shape |-> <<>>, data |-> <<>>]

ndim(A) == Len(A.shape)

Elem(A, i, j) == A.data[i * A.shape[2] + j + 1]

Column(A, j) == [i \in 1..A.shape[1] |-> Elem(A, i - 1, j)]

range(n) == [i \in 1..n |-> i - 1]

\* A[ind] for a one-dimensional integer index array ind: the rows of A at ind
TakeRows(A, ind) ==
    LET D == A.shape[2]
    IN  Array(<<Len(ind), D>>,
              [p \in 1..(Len(ind) * D) |->
                  Elem(A, ind[((p - 1) \div D) + 1], (p - 1) % D)])

\* A[0, dims] for a 1xD array A: the one-dimensional array of the entries at dims
Index0(A, dims) == Array(<<Len(dims)>>, [p \in 1..Len(dims) |-> Elem(A, 0, dims[p])])

RECURSIVE SortedSeq(_)
SortedSeq(S) ==
    IF S = {} THEN <<>>
    ELSE LET m == Min(S) IN <<m>> \o SortedSeq(S \ {m})

\* the distinct values of col in the order of their first occurrence
RECURSIVE FirstOccurrences(_)
FirstOccurrences(col) ==
    IF col = <<>> THEN <<>>
    ELSE LET rest == FirstOccurrences(SubSeq(col, 1, Len(col) - 1))
             x == col[Len(col)]
         IN  IF \E i \in 1..Len(rest) : rest[i] = x THEN rest ELSE Append(rest, x)

\* the values of col in increasing order, repeated values kept
RECURSIVE SortedAll(_)
SortedAll(col) ==
    IF col = <<>> THEN <<>>
    ELSE LET m == Min({col[i] : i \in 1..Len(col)})
             at == CHOOSE i \in 1..Len(col) : col[i] = m
         IN  <<m>> \o SortedAll(SubSeq(col, 1, at - 1) \o SubSeq(col, at + 1, Len(col)))

\* unique without the sort: distinct values, unsorted
unique_unsorted(col) == FirstOccurrences(col)

\* np.sort in place of np.unique: sorted, repeated values kept
unique_keepdups(col) == SortedAll(col)

\* np.unique(col): the sorted distinct values of a one-dimensional array
unique(col) == SortedSeq({col[i] : i \in 1..Len(col)})

\* the differences taken the other way round: s[i] - s[i+1]
diff_reversed(s) == [i \in 1..(Len(s) - 1) |-> s[i] - s[i + 1]]

\* np.diff(s): the differences of consecutive elements
diff(s) == [i \in 1..(Len(s) - 1) |-> s[i + 1] - s[i]]

Return(v) == [ok |-> TRUE, val |-> v]

Raise(e) == [ok |-> FALSE, exc |-> e]

None == << -1 >>

\* --------------------------------------------------------------- the state
VARIABLES
    args,       \* the arguments of the constructor call
    obj,        \* "new" before __init__ runs, then "ok" or "failed"
    attrs,      \* the attributes the instance has
    X, Y,       \* self.X, self.Y
    XLabel, YLabel,
    xranges,    \* self.xranges, the range cache
    minseps,    \* self.minseps, the minimum-separation cache
    splits,     \* self.splits, the cached result of kFoldSplits
    nFolds,     \* self.nFolds, the k self.splits was computed for
    foldInd,    \* the (train_ind, test_ind) pairs the latest computation of splits iterated over
    lastFold,   \* the latest value kFoldSplits returned, with its k
    op, arg,    \* the latest call and its argument
    path,       \* the branch the latest call took
    ret,        \* what the latest call returned or raised
    thr         \* SpecThreads: for each thread its position, its call and its locals

vars == <<args, obj, attrs, X, Y, XLabel, YLabel, xranges, minseps, splits,
          nFolds, foldInd, lastFold, op, arg, path, ret, thr>>

data == <<args, obj, X, Y, XLabel, YLabel>>

stats == <<xranges, minseps>>

folds == <<splits, nFolds, foldInd, lastFold>>

Threads == {1, 2}

\* a thread: pc is its position, op and arg its call, loc the value it has
\* computed, path the branch it took and ret what its call returned
Thread(pc, o, a, loc, p, r) == [pc |-> pc, op |-> o, arg |-> a, loc |-> loc, path |-> p, ret |-> r]

Idle == Thread("idle", "none", None, <<>>, "none", Return(None))

NoThreads == [t \in Threads |-> Idle]

\* ------------------------------------------------------- constructor inputs
\* an array of the given shape whose element in row i, column j is i*(j+1) mod m
Pattern(shape, m) ==
    LET cells == IF Len(shape) = 1 THEN shape[1] ELSE shape[1] * shape[2]
        D == IF Len(shape) = 1 THEN 1 ELSE shape[2]
    IN  Array(shape, [p \in 1..cells |-> (((p - 1) \div D) * (((p - 1) % D) + 1)) % m])

\* an Nx1 array of labels 0, 1, .., c-1, 0, 1, ..
Labels(shape, c) ==
    LET cells == IF Len(shape) = 1 THEN shape[1] ELSE shape[1] * shape[2]
    IN  Array(shape, [p \in 1..cells |-> (p - 1) % c])

XArgs ==
    {Pattern(<<n, d>>, m) : n \in 1..MaxN, d \in 1..MaxD, m \in 1..MaxMod}
    \cup {Pattern(<<n>>, MaxMod) : n \in 1..2}
    \cup {Pattern(<<n, 1, 1>>, MaxMod) : n \in 1..2}
    \cup {[Pattern(<<2, 1>>, MaxMod) EXCEPT !.kind = "list"]}

YArgs ==
    {Labels(<<n, 1>>, MaxClasses) : n \in 1..MaxN}
    \cup {Labels(<<n>>, 2) : n \in 1..2}
    \cup {Labels(<<n, 2>>, 2) : n \in 1..2}
    \cup {Labels(<<n, 1, 1>>, 2) : n \in 1..2}
    \cup {[Labels(<<2, 1>>, 2) EXCEPT !.kind = "list"]}

Init ==
    /\ args \in [X : XArgs, Y : YArgs, XLabel : {None}, YLabel : {None}]
    /\ obj = "new"
    /\ attrs = {}
    /\ X = NoArray /\ Y = NoArray
    /\ XLabel = <<>> /\ YLabel = <<>>
    /\ xranges = NoArray /\ minseps = NoArray
    /\ splits = <<>> /\ nFolds = 0
    /\ foldInd = <<>> /\ lastFold = [k |-> 0, val |-> <<>>]
    /\ op = "none" /\ arg = None /\ path = "none" /\ ret = Return(None)
    /\ thr = NoThreads

\* ------------------------------------------------------------- __init__
\* the sanity checks without the comparison of the row counts
SanityCheck_norows(ax, ay) ==
    /\ ax.kind = "ndarray"
    /\ ndim(ax) = 2
    /\ ay.kind = "ndarray"
    /\ ndim(ay) = 2 /\ ay.shape[2] = 1

\* the sanity checks of __init__: the conjunction of its five assertions
SanityCheck(ax, ay) ==
    /\ ax.kind = "ndarray"
    /\ ndim(ax) = 2
    /\ ay.kind = "ndarray"
    /\ ndim(ay) = 2 /\ ay.shape[2] = 1
    /\ ay.shape[1] = ax.shape[1]

DefaultXLabel(D) == [d \in 1..D |-> "$x_{" \o ToString(d) \o "}$"]

Construct ==
    /\ obj = "new"
    /\ op' = "__init__" /\ arg' = None /\ path' = "none"
    /\ IF ~SanityCheck(args.X, args.Y)
       THEN /\ obj' = "failed"
            /\ ret' = Raise("AssertionError")
            /\ UNCHANGED <<attrs, X, Y, XLabel, YLabel>>
       ELSE /\ obj' = "ok"
            /\ X' = args.X /\ Y' = args.Y
            /\ XLabel' = IF args.XLabel # None /\ Len(args.XLabel) = args.X.shape[2]
                         THEN args.XLabel
                         ELSE DefaultXLabel(args.X.shape[2])
            /\ YLabel' = IF args.YLabel # None /\ Len(args.YLabel) = 2
                         THEN args.YLabel
                         ELSE <<"negative", "positive">>
            /\ attrs' = {"X", "Y", "XLabel", "YLabel"}
            /\ ret' = Return(None)
    /\ UNCHANGED <<args, thr, stats, folds>>

\* ------------------------------------------------------------- getters
getNum == X.shape[1]

getDim == X.shape[2]

GetNum ==
    /\ obj = "ok"
    /\ op' = "getNum" /\ arg' = None /\ path' = "none"
    /\ ret' = Return(getNum)
    /\ UNCHANGED <<data, thr, attrs, stats, folds>>

GetDim ==
    /\ obj = "ok"
    /\ op' = "getDim" /\ arg' = None /\ path' = "none"
    /\ ret' = Return(getDim)
    /\ UNCHANGED <<data, thr, attrs, stats, folds>>

\* getClass knowing the classes 0 and 1 only: no row for any other label
getClassRows_binary(ax, ay, y) ==
    TakeRows(ax, SortedSeq({i \in 0..(ay.shape[1] - 1) : Elem(ay, i, 0) = y /\ y \in {0, 1}}))

\* self.X[self.Y[:,0] == y]: the rows of X whose label is y, in row order
getClassRows(ax, ay, y) ==
    TakeRows(ax, SortedSeq({i \in 0..(ay.shape[1] - 1) : Elem(ay, i, 0) = y}))

GetClass(y) ==
    /\ obj = "ok"
    /\ op' = "getClass" /\ arg' = y /\ path' = "none"
    /\ ret' = Return(getClassRows(X, Y, y))
    /\ UNCHANGED <<data, thr, attrs, stats, folds>>

RECURSIVE SumSeq(_)
SumSeq(s) == IF s = <<>> THEN 0 ELSE s[1] + SumSeq(Tail(s))

\* the mean of s as the fraction <<numerator, denominator>>
mean(s) == <<SumSeq(s), Len(s)>>

\* the population standard deviation of s, given as its square, a fraction
std(s) == <<Len(s) * SumSeq([i \in 1..Len(s) |-> s[i] * s[i]]) - SumSeq(s) * SumSeq(s),
            Len(s) * Len(s)>>

SeqMin(s) == Min({s[i] : i \in 1..Len(s)})

SeqMax(s) == Max({s[i] : i \in 1..Len(s)})

DataShape(ax, ay) ==
    [x_mu   |-> [d \in 1..ax.shape[2] |-> mean(Column(ax, d - 1))],
     x_sd   |-> [d \in 1..ax.shape[2] |-> std(Column(ax, d - 1))],
     x_min  |-> [d \in 1..ax.shape[2] |-> SeqMin(Column(ax, d - 1))],
     x_max  |-> [d \in 1..ax.shape[2] |-> SeqMax(Column(ax, d - 1))],
     y_sd   |-> std(ay.data),
     y_mean |-> mean(ay.data)]

GetDataShape ==
    /\ obj = "ok"
    /\ op' = "getDataShape" /\ arg' = None /\ path' = "none"
    /\ ret' = Return(DataShape(X, Y))
    /\ UNCHANGED <<data, thr, attrs, stats, folds>>

\* ------------------------------------------------------------ inputRange
\* X.max() - X.min() without axis=0: the range of the whole matrix in every column
ComputeRanges_noaxis(ax) ==
    Array(<<1, ax.shape[2]>>, [d \in 1..ax.shape[2] |-> SeqMax(ax.data) - SeqMin(ax.data)])

\* X.max(axis=0, keepdims=True) - X.min(axis=0, keepdims=True): a 1xD array
ComputeRanges(ax) ==
    Array(<<1, ax.shape[2]>>,
          [d \in 1..ax.shape[2] |-> SeqMax(Column(ax, d - 1)) - SeqMin(Column(ax, d - 1))])

\* the dims a call works with: all dimensions when the argument is None
DimsOf(dims) == IF dims = None THEN range(getDim) ELSE dims

\* inputRange testing a misspelt attribute name: it computes on every call
inputRangeCall_misspelt(dims) ==
    LET miss == "xrange" \notin attrs \/ xranges = NoArray
        c == IF miss THEN ComputeRanges(X) ELSE xranges
    IN  [cache |-> c, path |-> IF miss THEN "computed" ELSE "cached",
         ret |-> Return(Index0(c, DimsOf(dims)))]

\* one call of inputRange: the cache after it (cache, has) and what it returns
inputRangeCall(dims) ==
    LET miss == "xranges" \notin attrs \/ xranges = NoArray
        c == IF miss THEN ComputeRanges(X) ELSE xranges
    IN  [cache |-> c, path |-> IF miss THEN "computed" ELSE "cached",
         ret |-> Return(Index0(c, DimsOf(dims)))]

inputRange(dims) ==
    /\ obj = "ok"
    /\ op' = "inputRange" /\ arg' = dims
    /\ LET r == inputRangeCall(dims)
       IN  /\ xranges' = r.cache
           /\ attrs' = attrs \cup {"xranges"}
           /\ path' = r.path
           /\ ret' = r.ret
    /\ UNCHANGED <<data, thr, minseps, folds>>

\* ---------------------------------------------------------- minSeparation
\* the minimum taken with a default of 0, so that an empty sequence gives 0
MinSepOfColumn_default(col) ==
    LET d == diff(unique(col))
    IN  IF Len(d) = 0 THEN Return(0) ELSE Return(SeqMin(d))

\* np.diff(np.unique(X[:,i])).min(): raises ValueError on an empty sequence
MinSepOfColumn(col) ==
    LET d == diff(unique(col))
    IN  IF Len(d) = 0 THEN Raise("ValueError") ELSE Return(SeqMin(d))

\* the loop of minSeparation over all dimensions: the 1xD array minseps, or
\* the exception of the first dimension that has fewer than two distinct values
ComputeMinSeps(ax) ==
    LET per == [d \in 1..ax.shape[2] |-> MinSepOfColumn(Column(ax, d - 1))]
    IN  IF \E d \in 1..ax.shape[2] : ~per[d].ok
        THEN Raise("ValueError")
        ELSE Return(Array(<<1, ax.shape[2]>>, [d \in 1..ax.shape[2] |-> per[d].val]))

\* minSeparation assigning self.minseps before the loop: a failing call leaves
\* the unfilled array behind as the cache
minSeparationCall_early(dims) ==
    LET miss == "minseps" \notin attrs \/ minseps = NoArray
        c == IF miss THEN ComputeMinSeps(X) ELSE Return(minseps)
    IN  IF c.ok
        THEN [cache |-> c.val, has |-> TRUE, path |-> IF miss THEN "computed" ELSE "cached",
              ret |-> Return(Index0(c.val, DimsOf(dims)))]
        ELSE [cache |-> Array(<<1, getDim>>, [d \in 1..getDim |-> 0]), has |-> TRUE,
              path |-> "raised", ret |-> c]

\* one call of minSeparation: the cache after it (cache, has) and what it returns
minSeparationCall(dims) ==
    LET miss == "minseps" \notin attrs \/ minseps = NoArray
        c == IF miss THEN ComputeMinSeps(X) ELSE Return(minseps)
    IN  IF c.ok
        THEN [cache |-> c.val, has |-> TRUE, path |-> IF miss THEN "computed" ELSE "cached",
              ret |-> Return(Index0(c.val, DimsOf(dims)))]
        ELSE [cache |-> minseps, has |-> FALSE, path |-> "raised", ret |-> c]

\* the matrix with every column sorted
SortColumns(ax) ==
    Array(ax.shape, [p \in 1..Len(ax.data) |->
                        SortedAll(Column(ax, (p - 1) % ax.shape[2]))[((p - 1) \div ax.shape[2]) + 1]])

\* minSeparation sorting the columns of self.X in place on a cache miss
minSeparation_inplace(dims) ==
    /\ obj = "ok"
    /\ op' = "minSeparation" /\ arg' = dims
    /\ LET r == minSeparationCall(dims)
       IN  /\ minseps' = r.cache
           /\ attrs' = IF r.has THEN attrs \cup {"minseps"} ELSE attrs
           /\ path' = r.path
           /\ ret' = r.ret
           /\ X' = IF r.path = "cached" THEN X ELSE SortColumns(X)
    /\ UNCHANGED <<args, obj, Y, XLabel, YLabel, thr, xranges, folds>>

minSeparation(dims) ==
    /\ obj = "ok"
    /\ op' = "minSeparation" /\ arg' = dims
    /\ LET r == minSeparationCall(dims)
       IN  /\ minseps' = r.cache
           /\ attrs' = IF r.has THEN attrs \cup {"minseps"} ELSE attrs
           /\ path' = r.path
           /\ ret' = r.ret
    /\ UNCHANGED <<data, thr, xranges, folds>>

\* ---------------------------------------- getLengthscaleBounds, getPeriodBounds
\* np.vstack((lower, upper)) of two one-dimensional arrays of equal length
vstack(lower, upper) == Array(<<2, lower.shape[1]>>, lower.data \o upper.data)

\* the upper bound without the factor 2
Times2_forgotten(a) == a

\* inputRange(dims) * 2
Times2(a) == Array(a.shape, [p \in 1..Len(a.data) |-> a.data[p] * 2])

\* one call of getLengthscaleBounds: minSeparation first, then inputRange
LengthscaleBoundsCall(dims) ==
    LET d == DimsOf(dims)
        lower == minSeparationCall(d)
        upper == inputRangeCall(d)
    IN  IF ~lower.ret.ok
        THEN [minseps |-> lower.cache, xranges |-> xranges, attrs |-> attrs,
              path |-> <<lower.path>>, ret |-> lower.ret]
        ELSE [minseps |-> lower.cache, xranges |-> upper.cache,
              attrs |-> attrs \cup {"minseps", "xranges"},
              path |-> <<lower.path, upper.path>>,
              ret |-> Return(vstack(lower.ret.val, Times2(upper.ret.val)))]

BoundsStep(dims) ==
    LET r == LengthscaleBoundsCall(dims)
    IN  /\ minseps' = r.minseps
        /\ xranges' = r.xranges
        /\ attrs' = r.attrs
        /\ path' = r.path
        /\ ret' = r.ret

getLengthscaleBounds(dims) ==
    /\ obj = "ok"
    /\ op' = "getLengthscaleBounds" /\ arg' = dims
    /\ BoundsStep(dims)
    /\ UNCHANGED <<data, thr, folds>>

\* getPeriodBounds calling getLengthscaleBounds() without passing dims on
getPeriodBounds_dimsdropped(dims) ==
    /\ obj = "ok"
    /\ op' = "getPeriodBounds" /\ arg' = dims
    /\ BoundsStep(None)
    /\ UNCHANGED <<data, thr, folds>>

getPeriodBounds(dims) ==
    /\ obj = "ok"
    /\ op' = "getPeriodBounds" /\ arg' = dims
    /\ BoundsStep(dims)
    /\ UNCHANGED <<data, thr, folds>>

\* -------------------------------------------------------------- __repr__
\* the text is built from getDim(), getNum(), the labels, inputRange() and
\* then minSeparation(); the model returns these parts instead of the text
Repr ==
    /\ obj = "ok"
    /\ op' = "__repr__" /\ arg' = None
    /\ LET r == inputRangeCall(None)
           m == minSeparationCall(None)
       IN  /\ xranges' = r.cache
           /\ minseps' = m.cache
           /\ attrs' = attrs \cup {"xranges"} \cup (IF m.has THEN {"minseps"} ELSE {})
           /\ path' = <<r.path, m.path>>
           /\ ret' = IF m.ret.ok
                     THEN Return(<<getDim, getNum, XLabel, YLabel, r.ret.val.data, m.ret.val.data>>)
                     ELSE m.ret
    /\ UNCHANGED <<data, thr, folds>>

\* ------------------------------------------------------------ kFoldSplits
\* sklearn.cross_validation.KFold(n, n_folds=k, shuffle=True), iterated: idxs is
\* the shuffled np.arange(n); the first n % k blocks of idxs take n // k + 1
\* indices, the others n // k; each fold yields (train_ind, test_ind), both
\* in increasing order, test_ind being the block and train_ind the other rows
\* blocks of ceil(n / k) indices each, the last blocks taking what is left
FoldStart_ceil(n, k, i) ==
    IF (i - 1) * ((n + k - 1) \div k) < n THEN (i - 1) * ((n + k - 1) \div k) ELSE n

FoldStart(n, k, i) == (i - 1) * (n \div k) + (IF i - 1 < n % k THEN i - 1 ELSE n % k)

KFold(n, k, idxs) ==
    [i \in 1..k |->
        LET test == {idxs[p] : p \in FoldStart(n, k, i)..(FoldStart(n, k, i + 1) - 1)}
        IN  <<SortedSeq((0..(n - 1)) \ test), SortedSeq(test)>>]

\* the assertion with k < N in place of k <= N
FoldCountOK_strict(k, n) == k > 0 /\ k < n

\* the assertion of kFoldSplits
FoldCountOK(k, n) == k > 0 /\ k <= n

\* the cache test with a misspelt attribute name: it never holds
CacheHit_misspelt(has, cached, k) == "splits" \in has /\ "nfolds" \in has /\ cached = k

\* the cache test without the comparison of k
CacheHit_anyk(has, cached, k) == "splits" \in has /\ "nFolds" \in has

\* the test that returns the cached splits
CacheHit(has, cached, k) == "splits" \in has /\ "nFolds" \in has /\ cached = k

\* k = 1 with nothing held out for testing
Unsplit_notest(ax, ay) == << <<ax>>, <<ay>>, <<>>, <<>> >>

\* k = 1: the whole dataset is both the training set and the test set
Unsplit(ax, ay) == << <<ax>>, <<ay>>, <<ax>>, <<ay>> >>

\* the loop over the folds taking the test inputs at train_ind
SplitArrays_trainastest(ax, ay, kf) ==
    << [i \in 1..Len(kf) |-> TakeRows(ax, kf[i][1])],
       [i \in 1..Len(kf) |-> TakeRows(ay, kf[i][1])],
       [i \in 1..Len(kf) |-> TakeRows(ax, kf[i][1])],
       [i \in 1..Len(kf) |-> TakeRows(ay, kf[i][2])] >>

\* the loop over the folds: the lists X, Y, XT, YT
SplitArrays(ax, ay, kf) ==
    << [i \in 1..Len(kf) |-> TakeRows(ax, kf[i][1])],
       [i \in 1..Len(kf) |-> TakeRows(ay, kf[i][1])],
       [i \in 1..Len(kf) |-> TakeRows(ax, kf[i][2])],
       [i \in 1..Len(kf) |-> TakeRows(ay, kf[i][2])] >>

kFoldSplits(k) ==
    /\ obj = "ok"
    /\ op' = "kFoldSplits" /\ arg' = k
    /\ IF ~FoldCountOK(k, getNum)
       THEN /\ ret' = Raise("AssertionError")
            /\ path' = "raised"
            /\ UNCHANGED <<attrs, folds>>
       ELSE IF CacheHit(attrs, nFolds, k)
       THEN /\ ret' = Return(splits)
            /\ path' = "cached"
            /\ lastFold' = [k |-> k, val |-> splits]
            /\ UNCHANGED <<attrs, splits, nFolds, foldInd>>
       ELSE \E idxs \in (IF k = 1 THEN {range(getNum)} ELSE Permutations(0..(getNum - 1))) :
            LET kf == IF k = 1 THEN <<>> ELSE KFold(getNum, k, idxs)
                r == IF k = 1 THEN Unsplit(X, Y) ELSE SplitArrays(X, Y, kf)
            IN  /\ splits' = r
                /\ nFolds' = k
                /\ attrs' = attrs \cup {"splits", "nFolds"}
                /\ foldInd' = kf
                /\ lastFold' = [k |-> k, val |-> r]
                /\ path' = IF "splits" \in attrs THEN "recomputed" ELSE "computed"
                /\ ret' = Return(r)
    /\ UNCHANGED <<data, thr, stats>>

\* the dims arguments of the calls: None, or a list of distinct dimensions
DimsArgs(D) ==
    {None} \cup {s \in UNION {[1..n -> 0..(D - 1)] : n \in 1..D} :
                    \A i, j \in 1..Len(s) : i # j => s[i] # s[j]}

Next ==
    \/ Construct
    \/ GetNum
    \/ GetDim
    \/ \E y \in 0..MaxClasses : GetClass(y)
    \/ GetDataShape
    \/ obj = "ok" /\ \E dims \in DimsArgs(getDim) : inputRange(dims)
    \/ obj = "ok" /\ \E dims \in DimsArgs(getDim) : minSeparation(dims)
    \/ obj = "ok" /\ \E dims \in DimsArgs(getDim) : getLengthscaleBounds(dims)
    \/ obj = "ok" /\ \E dims \in DimsArgs(getDim) : getPeriodBounds(dims)
    \/ Repr
    \/ obj = "ok" /\ \E k \in 0..(getNum + 1) : kFoldSplits(k)

Spec == Init /\ [][Next]_vars

\* ---------------------------------------------- the statistics on every matrix
\* every NxD matrix over 0..StatVal of at most StatCells elements
StatShapes == {sh \in (1..StatN) \X (1..StatD) : sh[1] * sh[2] <= StatCells}

StatXArgs ==
    UNION {{Array(sh, f) : f \in [1..(sh[1] * sh[2]) -> 0..StatVal]} : sh \in StatShapes}

InitStats ==
    /\ \E ax \in StatXArgs :
          args = [X |-> ax, Y |-> Labels(<<ax.shape[1], 1>>, 2), XLabel |-> None, YLabel |-> None]
    /\ obj = "new"
    /\ attrs = {}
    /\ X = NoArray /\ Y = NoArray
    /\ XLabel = <<>> /\ YLabel = <<>>
    /\ xranges = NoArray /\ minseps = NoArray
    /\ splits = <<>> /\ nFolds = 0
    /\ foldInd = <<>> /\ lastFold = [k |-> 0, val |-> <<>>]
    /\ op = "none" /\ arg = None /\ path = "none" /\ ret = Return(None)
    /\ thr = NoThreads

NextStats ==
    \/ Construct
    \/ obj = "ok" /\ \E dims \in DimsArgs(getDim) : inputRange(dims)
    \/ obj = "ok" /\ \E dims \in DimsArgs(getDim) : minSeparation(dims)
    \/ obj = "ok" /\ \E dims \in DimsArgs(getDim) : getLengthscaleBounds(dims)
    \/ obj = "ok" /\ \E dims \in DimsArgs(getDim) : getPeriodBounds(dims)

SpecStats == InitStats /\ [][NextStats]_vars

\* ------------------------------------------------- the folds of longer datasets
\* the datasets of one input column 0, 1, .., n-1 with outputs 0, 1, 0, ..
InitFold ==
    /\ \E n \in 1..FoldN :
          args = [X |-> Pattern(<<n, 1>>, n), Y |-> Labels(<<n, 1>>, 2),
                  XLabel |-> None, YLabel |-> None]
    /\ obj = "new"
    /\ attrs = {}
    /\ X = NoArray /\ Y = NoArray
    /\ XLabel = <<>> /\ YLabel = <<>>
    /\ xranges = NoArray /\ minseps = NoArray
    /\ splits = <<>> /\ nFolds = 0
    /\ foldInd = <<>> /\ lastFold = [k |-> 0, val |-> <<>>]
    /\ op = "none" /\ arg = None /\ path = "none" /\ ret = Return(None)
    /\ thr = NoThreads

NextFold ==
    \/ Construct
    \/ obj = "ok" /\ \E k \in 0..(getNum + 1) : kFoldSplits(k)

SpecFold == InitFold /\ [][NextFold]_vars

\* ------------------------------------------- two threads sharing one object
\* The methods take no lock, so the reads and writes of the attributes of a
\* call interleave with those of the other thread. A step is one read or one
\* write of a shared attribute, with the local computation that precedes it.
ThrN == 2

At(t, pc) == obj = "ok" /\ thr[t].pc = pc

Goto(t, pc) == thr' = [thr EXCEPT ![t].pc = pc]

Finish(t, p, r) == thr' = [thr EXCEPT ![t].pc = "idle", ![t].path = p, ![t].ret = r]

\* a thread calls inputRange(dims)
CallInputRange(t, dims) ==
    /\ At(t, "idle")
    /\ thr' = [thr EXCEPT ![t] = Thread("ir_test", "inputRange", dims, <<>>, "none", Return(None))]
    /\ UNCHANGED <<data, attrs, stats, folds, op, arg, path, ret>>

\* if not hasattr(self, 'xranges') or self.xranges is None
InputRangeTest(t) ==
    /\ At(t, "ir_test")
    /\ IF "xranges" \notin attrs \/ xranges = NoArray
       THEN thr' = [thr EXCEPT ![t].pc = "ir_store", ![t].path = "computed"]
       ELSE thr' = [thr EXCEPT ![t].pc = "ir_read", ![t].path = "cached"]
    /\ UNCHANGED <<data, attrs, stats, folds, op, arg, path, ret>>

\* self.xranges = X.max(axis=0, keepdims=True) - X.min(axis=0, keepdims=True)
InputRangeStore(t) ==
    /\ At(t, "ir_store")
    /\ xranges' = ComputeRanges(X)
    /\ attrs' = attrs \cup {"xranges"}
    /\ Goto(t, "ir_read")
    /\ UNCHANGED <<data, minseps, folds, op, arg, path, ret>>

\* return self.xranges[0, dims]
InputRangeRead(t) ==
    /\ At(t, "ir_read")
    /\ Finish(t, thr[t].path, Return(Index0(xranges, DimsOf(thr[t].arg))))
    /\ UNCHANGED <<data, attrs, stats, folds, op, arg, path, ret>>

\* a thread calls minSeparation(dims)
CallMinSeparation(t, dims) ==
    /\ At(t, "idle")
    /\ thr' = [thr EXCEPT ![t] = Thread("ms_test", "minSeparation", dims, <<>>, "none", Return(None))]
    /\ UNCHANGED <<data, attrs, stats, folds, op, arg, path, ret>>

\* if not hasattr(self, 'minseps') or self.minseps is None
MinSeparationTest(t) ==
    /\ At(t, "ms_test")
    /\ IF "minseps" \notin attrs \/ minseps = NoArray
       THEN thr' = [thr EXCEPT ![t].pc = "ms_store", ![t].path = "computed"]
       ELSE thr' = [thr EXCEPT ![t].pc = "ms_read", ![t].path = "cached"]
    /\ UNCHANGED <<data, attrs, stats, folds, op, arg, path, ret>>

\* the loop over the dimensions, which raises on a degenerate one, and then
\* self.minseps = minseps
MinSeparationStore(t) ==
    /\ At(t, "ms_store")
    /\ LET c == ComputeMinSeps(X)
       IN  IF c.ok
           THEN /\ minseps' = c.val
                /\ attrs' = attrs \cup {"minseps"}
                /\ Goto(t, "ms_read")
           ELSE /\ Finish(t, "raised", c)
                /\ UNCHANGED <<minseps, attrs>>
    /\ UNCHANGED <<data, xranges, folds, op, arg, path, ret>>

\* return self.minseps[0, dims]
MinSeparationRead(t) ==
    /\ At(t, "ms_read")
    /\ Finish(t, thr[t].path, Return(Index0(minseps, DimsOf(thr[t].arg))))
    /\ UNCHANGED <<data, attrs, stats, folds, op, arg, path, ret>>

\* a thread calls kFoldSplits(k): assert k > 0 and k <= self.getNum()
CallKFoldSplits(t, k) ==
    /\ At(t, "idle")
    /\ IF FoldCountOK(k, getNum)
       THEN thr' = [thr EXCEPT ![t] = Thread("kf_has_splits", "kFoldSplits", k, <<>>, "none", Return(None))]
       ELSE thr' = [thr EXCEPT ![t] = Thread("idle", "kFoldSplits", k, <<>>, "raised", Raise("AssertionError"))]
    /\ UNCHANGED <<data, attrs, stats, folds, op, arg, path, ret>>

\* hasattr(self, 'splits')
KFoldHasSplits(t) ==
    /\ At(t, "kf_has_splits")
    /\ Goto(t, IF "splits" \in attrs THEN "kf_has_nFolds" ELSE "kf_store_splits")
    /\ UNCHANGED <<data, attrs, stats, folds, op, arg, path, ret>>

\* and hasattr(self, 'nFolds')
KFoldHasNFolds(t) ==
    /\ At(t, "kf_has_nFolds")
    /\ Goto(t, IF "nFolds" \in attrs THEN "kf_compare" ELSE "kf_store_splits")
    /\ UNCHANGED <<data, attrs, stats, folds, op, arg, path, ret>>

\* and self.nFolds == k
KFoldCompare(t) ==
    /\ At(t, "kf_compare")
    /\ Goto(t, IF nFolds = thr[t].arg THEN "kf_return_cached" ELSE "kf_store_splits")
    /\ UNCHANGED <<data, attrs, stats, folds, op, arg, path, ret>>

\* return self.splits
KFoldReturnCached(t) ==
    /\ At(t, "kf_return_cached")
    /\ Finish(t, "cached", Return(splits))
    /\ UNCHANGED <<data, attrs, stats, folds, op, arg, path, ret>>

\* the partition is computed into the local ret, and then self.splits = ret
KFoldStoreSplits(t) ==
    /\ At(t, "kf_store_splits")
    /\ LET k == thr[t].arg
       IN  \E idxs \in (IF k = 1 THEN {range(getNum)} ELSE Permutations(0..(getNum - 1))) :
             LET r == IF k = 1 THEN Unsplit(X, Y) ELSE SplitArrays(X, Y, KFold(getNum, k, idxs))
             IN  /\ splits' = r
                 /\ attrs' = attrs \cup {"splits"}
                 /\ thr' = [thr EXCEPT ![t].pc = "kf_store_nFolds", ![t].loc = r]
    /\ UNCHANGED <<data, stats, nFolds, foldInd, lastFold, op, arg, path, ret>>

\* self.nFolds = k, and then return ret
KFoldStoreNFolds(t) ==
    /\ At(t, "kf_store_nFolds")
    /\ nFolds' = thr[t].arg
    /\ attrs' = attrs \cup {"nFolds"}
    /\ Finish(t, "computed", Return(thr[t].loc))
    /\ UNCHANGED <<data, stats, splits, foldInd, lastFold, op, arg, path, ret>>

\* datasets of one input column and n rows, the column constant or 0, .., n-1
InitThreads ==
    /\ \E n \in 1..ThrN : \E m \in {1, n} :
          args = [X |-> Pattern(<<n, 1>>, m), Y |-> Labels(<<n, 1>>, 2),
                  XLabel |-> None, YLabel |-> None]
    /\ obj = "new"
    /\ attrs = {}
    /\ X = NoArray /\ Y = NoArray
    /\ XLabel = <<>> /\ YLabel = <<>>
    /\ xranges = NoArray /\ minseps = NoArray
    /\ splits = <<>> /\ nFolds = 0
    /\ foldInd = <<>> /\ lastFold = [k |-> 0, val |-> <<>>]
    /\ op = "none" /\ arg = None /\ path = "none" /\ ret = Return(None)
    /\ thr = NoThreads

NextThreads ==
    \/ Construct
    \/ obj = "ok" /\ \E t \in Threads : \E dims \in DimsArgs(getDim) : CallInputRange(t, dims)
    \/ \E t \in Threads : InputRangeTest(t)
    \/ \E t \in Threads : InputRangeStore(t)
    \/ \E t \in Threads : InputRangeRead(t)
    \/ obj = "ok" /\ \E t \in Threads : \E dims \in DimsArgs(getDim) : CallMinSeparation(t, dims)
    \/ \E t \in Threads : MinSeparationTest(t)
    \/ \E t \in Threads : MinSeparationStore(t)
    \/ \E t \in Threads : MinSeparationRead(t)
    \/ obj = "ok" /\ \E t \in Threads : \E k \in 0..(getNum + 1) : CallKFoldSplits(t, k)
    \/ \E t \in Threads : KFoldHasSplits(t)
    \/ \E t \in Threads : KFoldHasNFolds(t)
    \/ \E t \in Threads : KFoldCompare(t)
    \/ \E t \in Threads : KFoldReturnCached(t)
    \/ \E t \in Threads : KFoldStoreSplits(t)
    \/ \E t \in Threads : KFoldStoreNFolds(t)

SpecThreads == InitThreads /\ [][NextThreads]_vars

\* ================================================================ the claims
Rows == 0..(args.X.shape[1] - 1)

SeqSet(s) == {s[i] : i \in 1..Len(s)}

FoldCall == obj = "ok" /\ op = "kFoldSplits"

\* B is the array of the rows of A at the indices ind, in that order
IsRowsOf(B, A, ind) ==
    /\ B.kind = "ndarray"
    /\ B.shape = <<Len(ind), A.shape[2]>>
    /\ Len(B.data) = Len(ind) * A.shape[2]
    /\ \A r \in 1..Len(ind) : \A c \in 0..(A.shape[2] - 1) :
          Elem(B, r - 1, c) = Elem(A, ind[r], c)

\* the folds iterated over split the rows: test blocks disjoint and covering,
\* every index once, each training set the complement of its test block
IndicesPartition(kf) ==
    /\ \A i \in 1..Len(kf) :
          /\ Cardinality(SeqSet(kf[i][2])) = Len(kf[i][2])
          /\ Cardinality(SeqSet(kf[i][1])) = Len(kf[i][1])
          /\ SeqSet(kf[i][1]) = Rows \ SeqSet(kf[i][2])
    /\ \A i, j \in 1..Len(kf) : i # j => SeqSet(kf[i][2]) \cap SeqSet(kf[j][2]) = {}
    /\ UNION {SeqSet(kf[i][2]) : i \in 1..Len(kf)} = Rows

\* the four lists v hold, fold by fold, the rows of the inputs and outputs at kf
AlignedWith(v, kf) ==
    /\ Len(v) = 4
    /\ \A l \in 1..4 : Len(v[l]) = Len(kf)
    /\ \A i \in 1..Len(kf) :
          /\ IsRowsOf(v[1][i], args.X, kf[i][1])
          /\ IsRowsOf(v[2][i], args.Y, kf[i][1])
          /\ IsRowsOf(v[3][i], args.X, kf[i][2])
          /\ IsRowsOf(v[4][i], args.Y, kf[i][2])

\* C1: a successful kFoldSplits(k) with k > 1 returns four lists of length k,
\* aligned by fold, whose test blocks cover every row index exactly once and
\* whose training set of fold i is exactly the rows outside test block i.
C1_FoldsPartitionRows ==
    (FoldCall /\ ret.ok /\ arg > 1) =>
        /\ Len(foldInd) = arg
        /\ IndicesPartition(foldInd)
        /\ AlignedWith(ret.val, foldInd)

C1_Witness ==
    /\ FoldCall /\ ret.ok /\ arg = 2 /\ args.X.shape[1] = 3
    /\ path = "computed"
    /\ Len(foldInd[1][2]) = 2 /\ Len(foldInd[2][2]) = 1

\* C2: a successful kFoldSplits(k) whose k is that of the latest successful
\* kFoldSplits call returns the very value that call returned.
C2_SameKSamePartition ==
    [][(op' = "kFoldSplits" /\ ret'.ok /\ lastFold.k = arg') => ret'.val = lastFold.val]_vars

C2_Witness ==
    /\ FoldCall /\ ret.ok /\ arg = 2 /\ path = "cached"
    /\ ret.val = lastFold.val

\* C3: every successful kFoldSplits(k) returns a result for this k: four lists
\* of exactly k folds that split all the rows, also when a result for another
\* k was cached before the call.
C3_NeverStale ==
    (FoldCall /\ ret.ok) =>
        /\ \A l \in 1..4 : Len(ret.val[l]) = arg
        /\ nFolds = arg /\ splits = ret.val
        /\ arg > 1 => /\ Len(foldInd) = arg
                      /\ IndicesPartition(foldInd)
                      /\ \A i \in 1..arg : ret.val[3][i].shape[1] = Len(foldInd[i][2])
                      /\ \A i \in 1..arg : ret.val[1][i].shape[1] = Len(foldInd[i][1])

C3_Witness ==
    /\ FoldCall /\ ret.ok /\ arg = 2 /\ path = "recomputed"
    /\ Len(ret.val[3]) = 2

\* C4: a successful kFoldSplits(1) returns four lists of length 1 holding the
\* full inputs, the full outputs, the full inputs and the full outputs.
C4_OneFoldIsWholeData ==
    (FoldCall /\ ret.ok /\ arg = 1) =>
        /\ \A l \in 1..4 : Len(ret.val[l]) = 1
        /\ ret.val[1][1] = args.X /\ ret.val[3][1] = args.X
        /\ ret.val[2][1] = args.Y /\ ret.val[4][1] = args.Y

C4_Witness ==
    /\ FoldCall /\ ret.ok /\ arg = 1 /\ path = "recomputed"
    /\ args.X.shape[1] = 3

\* C5: kFoldSplits(k) succeeds exactly when 1 <= k <= N and raises the
\* assertion's error otherwise, whether or not a result is cached.
C5_FoldCountChecked ==
    FoldCall =>
        /\ ret.ok <=> (1 <= arg /\ arg <= args.X.shape[1])
        /\ ~ret.ok => ret.exc = "AssertionError"

C5_Witness ==
    /\ FoldCall /\ ~ret.ok /\ arg = args.X.shape[1] + 1
    /\ "splits" \in attrs /\ "nFolds" \in attrs

\* the arrays are malformed: inputs not two-dimensional, outputs not an Nx1
\* matrix, or different numbers of rows
BadShapes ==
    \/ ndim(args.X) # 2
    \/ ndim(args.Y) # 2
    \/ args.Y.shape[2] # 1
    \/ args.Y.shape[1] # args.X.shape[1]

\* C6: the constructor fails on malformed arrays, and a failed constructor
\* leaves no object: not one attribute is set.
C6_BadShapesRejected ==
    obj # "new" =>
        /\ BadShapes => obj = "failed"
        /\ obj = "failed" => /\ op = "__init__" /\ ~ret.ok /\ ret.exc = "AssertionError"
                             /\ attrs = {}
                             /\ X = NoArray /\ Y = NoArray

C6_Witness ==
    /\ obj = "failed"
    /\ args.X.kind = "ndarray" /\ args.Y.kind = "ndarray"
    /\ args.X.shape = <<3, 2>> /\ args.Y.shape = <<2, 1>>

\* C7: in every state of a constructed dataset the inputs and outputs are the
\* arrays given to the constructor, they have the same number of rows, and
\* getNum and getDim return the rows and columns of the inputs.
C7_ArraysNeverChange ==
    obj = "ok" =>
        /\ X = args.X /\ Y = args.Y
        /\ Y.shape[1] = X.shape[1]
        /\ op = "getNum" => ret.val = args.X.shape[1] /\ ret.val = args.Y.shape[1]
        /\ op = "getDim" => ret.val = args.X.shape[2]

C7_Witness ==
    /\ obj = "ok" /\ op = "getNum" /\ ret.val = 3
    /\ {"xranges", "minseps", "splits", "nFolds"} \subseteq attrs
    /\ args.X.data = <<0, 0, 1, 2, 2, 1>>

\* the values of column d of the constructor's inputs
ColumnValues(d) == {Elem(args.X, i, d) : i \in Rows}

ArgDims == IF arg = None THEN range(args.X.shape[2]) ELSE arg

\* C8: every inputRange(dims) returns, for each requested dimension, the
\* maximum minus the minimum of that column of the inputs, whatever calls
\* came before it.
C8_RangeFromData ==
    (obj = "ok" /\ op = "inputRange") =>
        /\ ret.ok
        /\ ret.val.shape = <<Len(ArgDims)>>
        /\ Len(ret.val.data) = Len(ArgDims)
        /\ \A p \in 1..Len(ArgDims) :
              ret.val.data[p] = Max(ColumnValues(ArgDims[p])) - Min(ColumnValues(ArgDims[p]))

C8_Witness ==
    /\ obj = "ok" /\ op = "inputRange" /\ path = "cached"
    /\ arg = <<1>> /\ args.X.shape = <<2, 2>>
    /\ ret.val.data = <<3>> /\ xranges.data = <<1, 3>>

NonDegenerate == \A d \in 0..(args.X.shape[2] - 1) : Cardinality(ColumnValues(d)) >= 2

\* the least difference of two values of S that are neighbours in increasing order
MinAdjacentGap(S) ==
    Min({b - a : <<a, b>> \in {q \in S \X S : q[1] < q[2] /\ ~\E c \in S : q[1] < c /\ c < q[2]}})

\* the least absolute difference of two distinct values of S
MinPairGap(S) ==
    Min({(IF q[1] > q[2] THEN q[1] - q[2] ELSE q[2] - q[1]) : q \in {q \in S \X S : q[1] # q[2]}})

\* C9: on a dataset whose every dimension has two distinct values,
\* minSeparation returns for each requested dimension the least difference
\* of neighbouring distinct values of the column, which is the least
\* absolute difference of any two distinct values of the column.
C9_MinSepIsLeastGap ==
    (obj = "ok" /\ op = "minSeparation" /\ NonDegenerate) =>
        /\ ret.ok
        /\ ret.val.shape = <<Len(ArgDims)>>
        /\ \A p \in 1..Len(ArgDims) :
              /\ ret.val.data[p] = MinAdjacentGap(ColumnValues(ArgDims[p]))
              /\ ret.val.data[p] = MinPairGap(ColumnValues(ArgDims[p]))

C9_Witness ==
    /\ obj = "ok" /\ op = "minSeparation" /\ ret.ok /\ arg = None
    /\ args.X.shape = <<3, 1>> /\ args.X.data = <<3, 0, 1>>
    /\ ret.val.data = <<1>>

\* the datasets that are the inputs with the rows in another order, and
\* those with one row of them repeated at the end
RowPermutations(ax) ==
    {TakeRows(ax, [i \in 1..ax.shape[1] |-> pi[i] - 1]) : pi \in Permutations(1..ax.shape[1])}

WithRepeatedRow(ax) ==
    {TakeRows(ax, Append(range(ax.shape[1]), r)) : r \in 0..(ax.shape[1] - 1)}

Variants(ax) == RowPermutations(ax) \cup UNION {WithRepeatedRow(b) : b \in RowPermutations(ax)}

\* what a first minSeparation(dims) call gives on a dataset of inputs ax
MinSepOn(ax, dims) ==
    LET c == ComputeMinSeps(ax)
    IN  IF c.ok THEN Return(Index0(c.val, dims)) ELSE c

\* C10: minSeparation gives the same on every dataset whose inputs are the
\* rows of this one in another order, or with a row repeated.
C10_MinSepIgnoresOrderAndRepeats ==
    (obj = "ok" /\ op = "minSeparation") =>
        \A bx \in Variants(args.X) : MinSepOn(bx, ArgDims) = ret

C10_Witness ==
    /\ obj = "ok" /\ op = "minSeparation" /\ ret.ok
    /\ args.X.shape = <<3, 1>> /\ args.X.data = <<2, 0, 3>>
    /\ Array(<<4, 1>>, <<3, 2, 0, 2>>) \in Variants(args.X)
    /\ ret.val.data = <<1>>

StatCall(name) == obj = "ok" /\ op = name

\* C11: minSeparation(dims) fails when some dimension of the dataset has
\* fewer than two distinct values, whatever dims is asked for, and succeeds
\* when every dimension has two.
C11_DegenerateDimensionFails ==
    StatCall("minSeparation") =>
        /\ ret.ok <=> NonDegenerate
        /\ ~ret.ok => ret.exc = "ValueError" /\ "minseps" \notin attrs

C11_Witness ==
    /\ StatCall("minSeparation") /\ ~ret.ok
    /\ args.X.shape = <<2, 2>> /\ args.X.data = <<0, 1, 1, 1>>
    /\ arg = <<0>>

\* C12: on a dataset without a degenerate dimension getLengthscaleBounds(dims)
\* returns a 2 x |dims| matrix whose row 0 is what minSeparation(dims) returns
\* and whose row 1 is twice what inputRange(dims) returns, whichever caches
\* were filled before.
C12_BoundsAreMinSepAndTwiceRange ==
    (StatCall("getLengthscaleBounds") /\ NonDegenerate) =>
        LET n == Len(ArgDims)
        IN  /\ ret.ok
            /\ ret.val.shape = <<2, n>>
            /\ Len(ret.val.data) = 2 * n
            /\ SubSeq(ret.val.data, 1, n) = minSeparationCall(arg).ret.val.data
            /\ \A p \in 1..n :
                  /\ ret.val.data[p] = MinPairGap(ColumnValues(ArgDims[p]))
                  /\ ret.val.data[n + p] = inputRangeCall(arg).ret.val.data[p] * 2
                  /\ ret.val.data[n + p] =
                        2 * (Max(ColumnValues(ArgDims[p])) - Min(ColumnValues(ArgDims[p])))

C12_Witness ==
    /\ StatCall("getLengthscaleBounds") /\ ret.ok
    /\ path = <<"cached", "computed">>
    /\ args.X.shape = <<2, 2>> /\ args.X.data = <<0, 0, 1, 3>>
    /\ arg = <<1, 0>>
    /\ ret.val.data = <<3, 1, 6, 2>>

\* what getLengthscaleBounds(dims) returns on the inputs, computed from the data
BoundsFromData(dims) ==
    Array(<<2, Len(dims)>>,
          [p \in 1..Len(dims) |-> MinPairGap(ColumnValues(dims[p]))]
          \o [p \in 1..Len(dims) |->
                 2 * (Max(ColumnValues(dims[p])) - Min(ColumnValues(dims[p])))])

\* C13: getPeriodBounds(dims) returns what getLengthscaleBounds(dims) returns
\* when called in the same state, leaves the caches as that call leaves them,
\* and fails in the same cases: when a dimension is degenerate.
C13_PeriodBoundsAreLengthscaleBounds ==
    /\ [](StatCall("getPeriodBounds") =>
             /\ ret.ok <=> NonDegenerate
             /\ ret.ok => ret.val = BoundsFromData(ArgDims)
             /\ ~ret.ok => ret.exc = "ValueError")
    /\ [][op' = "getPeriodBounds" =>
             /\ ret' = LengthscaleBoundsCall(arg').ret
             /\ minseps' = LengthscaleBoundsCall(arg').minseps
             /\ xranges' = LengthscaleBoundsCall(arg').xranges
             /\ attrs' = LengthscaleBoundsCall(arg').attrs]_vars

C13_Witness ==
    /\ StatCall("getPeriodBounds") /\ ret.ok
    /\ path = <<"computed", "computed">>
    /\ args.X.shape = <<2, 2>> /\ args.X.data = <<0, 0, 1, 3>>
    /\ arg = <<1>>
    /\ ret.val.data = <<3, 6>>

WellFormedArgs ==
    /\ args.X.kind = "ndarray" /\ args.Y.kind = "ndarray"
    /\ ~BadShapes

\* the rows whose output is the label y, in increasing order
RowsLabelled(y) == SortedSeq({i \in Rows : Elem(args.Y, i, 0) = y})

\* C15 as stated: outputs with a value other than 0 or 1 are accepted, and
\* getClass with a label other than 0 or 1 returns no row.
C15_OutOfRangeLabelGivesNoRows ==
    /\ (obj # "new" /\ WellFormedArgs) => obj = "ok"
    /\ (obj = "ok" /\ op = "getClass" /\ arg \notin {0, 1}) => ret.val.shape[1] = 0

\* C15, amended: outputs with a value other than 0 or 1 are accepted, and
\* getClass(y) returns exactly the rows of the inputs whose output is y, so
\* the rows carrying an out-of-range label are returned for that label; the
\* result is empty exactly when no row carries y.
C15_GetClassReturnsLabelledRows ==
    /\ (obj # "new" /\ WellFormedArgs) => obj = "ok"
    /\ (obj = "ok" /\ op = "getClass") =>
          /\ ret.ok
          /\ IsRowsOf(ret.val, args.X, RowsLabelled(arg))
          /\ ret.val.shape[1] = 0 <=> ~\E i \in Rows : Elem(args.Y, i, 0) = arg

C15_Witness ==
    /\ obj = "ok" /\ op = "getClass" /\ arg = 2
    /\ args.Y.data = <<0, 1, 2>> /\ args.X.data = <<0, 1, 2>>
    /\ ret.val.shape = <<1, 1>> /\ ret.val.data = <<2>>

AllDims == 0..(args.X.shape[2] - 1)

\* C16: once the range cache or the minimum-separation cache is present it
\* stays present with the same value in every later state, it holds the
\* value of every dimension, and later calls take the cached branch.
C16_StatCachesFilledOnce ==
    /\ []("xranges" \in attrs =>
             /\ xranges.shape = <<1, args.X.shape[2]>>
             /\ \A d \in AllDims :
                   Elem(xranges, 0, d) = Max(ColumnValues(d)) - Min(ColumnValues(d)))
    /\ []("minseps" \in attrs =>
             /\ minseps.shape = <<1, args.X.shape[2]>>
             /\ \A d \in AllDims : Elem(minseps, 0, d) = MinPairGap(ColumnValues(d)))
    /\ []["xranges" \in attrs =>
             /\ "xranges" \in attrs' /\ xranges' = xranges
             /\ op' = "inputRange" => path' = "cached"
             /\ op' = "__repr__" => path'[1] = "cached"]_vars
    /\ []["minseps" \in attrs =>
             /\ "minseps" \in attrs' /\ minseps' = minseps
             /\ op' = "minSeparation" => path' = "cached"
             /\ op' \in {"getLengthscaleBounds", "getPeriodBounds"} => path'[1] = "cached"]_vars

C16_Witness ==
    /\ StatCall("inputRange") /\ path = "cached" /\ arg = <<1>>
    /\ args.X.data = <<0, 0, 1, 2, 2, 1>>
    /\ {"xranges", "minseps", "splits"} \subseteq attrs
    /\ xranges.data = <<2, 2>> /\ ret.val.data = <<2>>

\* the index arrays 0, 1, .., n-1 and n-1, .., 1, 0: two outcomes of the shuffle
Forward(n) == [i \in 0..(n - 1) |-> i]

Backward(n) == [i \in 0..(n - 1) |-> n - 1 - i]

\* C17: the fold cache is a memo of one entry: the cached k and partition are
\* those of the latest successful kFoldSplits call; a successful call with
\* another k replaces the entry by what it computes; and in the sequence
\* kFoldSplits(a), kFoldSplits(1), kFoldSplits(N) the third call draws its
\* shuffle anew: it can yield the folds of the forward and of the backward
\* order alike, so it is not bound to what an earlier kFoldSplits(N) returned.
C17_SingleEntryMemo ==
    /\ [](obj = "ok" =>
             /\ "splits" \in attrs <=> "nFolds" \in attrs
             /\ "nFolds" \in attrs <=> lastFold.k # 0
             /\ "nFolds" \in attrs => nFolds = lastFold.k /\ splits = lastFold.val)
    /\ [][(op' = "kFoldSplits" /\ ret'.ok /\ "nFolds" \in attrs /\ nFolds # arg') =>
             /\ path' = "recomputed"
             /\ nFolds' = arg' /\ splits' = ret'.val
             /\ lastFold' = [k |-> arg', val |-> ret'.val]]_vars
    /\ []((FoldCall /\ ret.ok /\ arg = 1 /\ path = "recomputed") =>
             LET n == args.X.shape[1]
             IN  /\ KFold(n, n, Forward(n)) # KFold(n, n, Backward(n))
                 /\ ENABLED (kFoldSplits(n) /\ foldInd' = KFold(n, n, Forward(n)))
                 /\ ENABLED (kFoldSplits(n) /\ foldInd' = KFold(n, n, Backward(n))))

C17_Witness ==
    /\ FoldCall /\ ret.ok /\ arg = 2 /\ path = "recomputed"
    /\ args.X.shape[1] = 3
    /\ nFolds = 2 /\ splits = ret.val /\ lastFold = [k |-> 2, val |-> ret.val]
    /\ foldInd = KFold(3, 2, Backward(3))

\* C19: a failing kFoldSplits call changes no cache, so that a following call
\* with the cached k returns the cached partition; a failing minSeparation
\* call changes no cache and leaves the minimum-separation cache absent, and
\* on a dataset with a degenerate dimension that cache is never present and
\* every minSeparation, getLengthscaleBounds and getPeriodBounds call fails.
C19_FailuresChangeNoCache ==
    /\ [][(op' = "kFoldSplits" /\ ~ret'.ok) =>
             UNCHANGED <<attrs, splits, nFolds, xranges, minseps, lastFold>>]_vars
    /\ [][(op = "kFoldSplits" /\ ~ret.ok /\ op' = "kFoldSplits" /\ ret'.ok /\ arg' = lastFold.k) =>
             path' = "cached" /\ ret'.val = lastFold.val]_vars
    /\ [][(op' = "minSeparation" /\ ~ret'.ok) =>
             /\ "minseps" \notin attrs'
             /\ UNCHANGED <<attrs, splits, nFolds, xranges, minseps>>]_vars
    /\ []((obj = "ok" /\ ~NonDegenerate) =>
             /\ "minseps" \notin attrs
             /\ op \in {"minSeparation", "getLengthscaleBounds", "getPeriodBounds"} => ~ret.ok)

C19_Witness ==
    /\ FoldCall /\ ~ret.ok /\ arg = 0
    /\ args.X.shape = <<3, 2>> /\ ~NonDegenerate
    /\ {"splits", "nFolds", "xranges"} \subseteq attrs /\ "minseps" \notin attrs
    /\ nFolds = 2 /\ lastFold.k = 2

\* C20: on a dataset without a degenerate dimension the bounds that
\* getLengthscaleBounds returns satisfy, for every requested dimension,
\* 0 < lower = minimum separation <= range < upper = 2 * range.
C20_BoundsOrdered ==
    (StatCall("getLengthscaleBounds") /\ NonDegenerate) =>
        /\ ret.ok
        /\ \A p \in 1..Len(ArgDims) :
              LET lower == ret.val.data[p]
                  upper == ret.val.data[Len(ArgDims) + p]
                  span == Max(ColumnValues(ArgDims[p])) - Min(ColumnValues(ArgDims[p]))
              IN  /\ 0 < lower
                  /\ lower = MinAdjacentGap(ColumnValues(ArgDims[p]))
                  /\ lower <= span
                  /\ span < upper
                  /\ upper = 2 * span

C20_Witness ==
    /\ StatCall("getLengthscaleBounds") /\ ret.ok /\ arg = None
    /\ args.X.shape = <<3, 1>> /\ args.X.data = <<3, 0, 1>>
    /\ ret.val.data = <<1, 6>>

\* C18: the test blocks of a successful kFoldSplits(k) with k > 1 are
\* balanced: none is empty, each has floor(N/k) or ceil(N/k) rows, and two
\* blocks differ by at most one row.
C18_BlocksBalanced ==
    (FoldCall /\ ret.ok /\ arg > 1) =>
        LET n == args.X.shape[1]
            size(i) == ret.val[3][i].shape[1]
        IN  /\ Len(ret.val[3]) = arg
            /\ \A i \in 1..arg :
                  /\ size(i) >= 1
                  /\ size(i) \in {n \div arg, (n + arg - 1) \div arg}
                  /\ ret.val[4][i].shape[1] = size(i)
                  /\ ret.val[1][i].shape[1] = n - size(i)
                  /\ ret.val[2][i].shape[1] = n - size(i)
            /\ \A i, j \in 1..arg : size(i) - size(j) <= 1

C18_Witness ==
    /\ FoldCall /\ ret.ok /\ arg = 3 /\ args.X.shape[1] = 4
    /\ ret.val[3][1].shape[1] = 2
    /\ ret.val[3][2].shape[1] = 1
    /\ ret.val[3][3].shape[1] = 1

\* ---------------------------------------------------------------- C14
\* thread t has completed a call of the method name
Done(t, name) == obj = "ok" /\ thr[t].pc = "idle" /\ thr[t].op = name

ThrDims(t) == IF thr[t].arg = None THEN range(args.X.shape[2]) ELSE thr[t].arg

\* v is a partition of the rows of the dataset into Len(v[1]) folds: some
\* assignment of the rows to non-empty folds gives its four lists
IsPartition(v) ==
    /\ Len(v) = 4
    /\ LET j == Len(v[1])
       IN  /\ j \in 1..args.X.shape[1]
           /\ \A l \in 2..4 : Len(v[l]) = j
           /\ IF j = 1
              THEN v = << <<args.X>>, <<args.Y>>, <<args.X>>, <<args.Y>> >>
              ELSE \E f \in [Rows -> 1..j] : \A i \in 1..j :
                      LET test == SortedSeq({r \in Rows : f[r] = i})
                          train == SortedSeq({r \in Rows : f[r] # i})
                      IN  /\ Len(test) >= 1
                          /\ IsRowsOf(v[1][i], args.X, train)
                          /\ IsRowsOf(v[2][i], args.Y, train)
                          /\ IsRowsOf(v[3][i], args.X, test)
                          /\ IsRowsOf(v[4][i], args.Y, test)

\* the calls of inputRange and minSeparation that threads have completed
\* returned the ranges and separations of the data for their own dims
ThreadStatsCorrect ==
    \A t \in Threads :
       /\ Done(t, "inputRange") =>
             thr[t].ret = Return(Array(<<Len(ThrDims(t))>>,
                 [i \in 1..Len(ThrDims(t)) |->
                     Max(ColumnValues(ThrDims(t)[i])) - Min(ColumnValues(ThrDims(t)[i]))]))
       /\ Done(t, "minSeparation") =>
             IF NonDegenerate
             THEN thr[t].ret = Return(Array(<<Len(ThrDims(t))>>,
                     [i \in 1..Len(ThrDims(t)) |-> MinAdjacentGap(ColumnValues(ThrDims(t)[i]))]))
             ELSE thr[t].ret = Raise("ValueError")

\* C14 as stated: with two threads calling inputRange, minSeparation and
\* kFoldSplits on one object without a lock, the race on the caches only
\* wastes work: every completed call returns the right result for its own
\* argument, so a completed kFoldSplits(k) with a valid k returns k folds.
C14_RacesOnlyWasteWork ==
    /\ ThreadStatsCorrect
    /\ \A t \in Threads : Done(t, "kFoldSplits") =>
          IF FoldCountOK(thr[t].arg, args.X.shape[1])
          THEN /\ thr[t].ret.ok
               /\ IsPartition(thr[t].ret.val)
               /\ Len(thr[t].ret.val[1]) = thr[t].arg
          ELSE thr[t].ret = Raise("AssertionError")

\* C14 as the code has it: the calls of inputRange and minSeparation return
\* the right result whatever the interleaving; a completed kFoldSplits(k)
\* with a valid k returns a partition of the rows, of k folds when the call
\* computed it itself, of the fold count of whichever partition is stored
\* when it took the cached branch; and a stored fold count always comes with
\* a stored partition, which need not be the one computed for that count.
C14_RaceOutcomes ==
    /\ ThreadStatsCorrect
    /\ \A t \in Threads : Done(t, "kFoldSplits") =>
          IF FoldCountOK(thr[t].arg, args.X.shape[1])
          THEN /\ thr[t].ret.ok
               /\ IsPartition(thr[t].ret.val)
               /\ thr[t].path = "computed" => Len(thr[t].ret.val[1]) = thr[t].arg
               /\ thr[t].path \in {"computed", "cached"}
          ELSE thr[t].ret = Raise("AssertionError")
    /\ (obj = "ok" /\ "nFolds" \in attrs) => "splits" \in attrs
    /\ (obj = "ok" /\ "splits" \in attrs) => IsPartition(splits)

\* a thread that asked for k folds got, from the cache, the partition the
\* other thread stored for another fold count, and the stored partition is
\* paired with a fold count it was not computed for
C14_Witness ==
    \E t, u \in Threads :
       /\ t # u
       /\ Done(t, "kFoldSplits") /\ thr[t].path = "cached" /\ thr[t].ret.ok
       /\ Len(thr[t].ret.val[1]) # thr[t].arg
       /\ "nFolds" \in attrs /\ Len(splits[1]) # nFolds
====
